---- MODULE Spec2Model ----
(***************************************************************************)
(* State-machine model of ClientEngine (src/src/ClientEngine.js): the      *)
(* per-tick step(), local input issuance with its delay buffer, the        *)
(* inbound world-update handler, the outbound flush, the playerJoined      *)
(* handler and the fixed-rate game loop of start().                        *)
(*                                                                         *)
(* JavaScript values are encoded as integers where a field is numeric:     *)
(*   NoStep       an event that has no stepCount property                  *)
(*   NaN          the number NaN (playerId before playerJoined, and        *)
(*                messageIndex after undefined++)                          *)
(*   UndefinedIdx the messageIndex field, which the constructor never sets *)
(*   serverStep = 0 stands for gameEngine.serverStep unset (falsy)         *)
(* Fields named emitted, processed, issued, syncLog, stepLog and lastCheck *)
(* are observations of what the handlers did (socket.emit calls,           *)
(* processInput calls, sendInput calls, client.syncReceived notifications, *)
(* step() calls); the code keeps no such state. So are phases (the phases  *)
(* of the last step() call), reentered (the inputs issued while the        *)
(* outbound queue was being sent), requestedSync, alerted and renderCalls. *)
(***************************************************************************)
EXTENDS Integers, Sequences, FiniteSets, TLC

\* ---------------------------------------------------------------- constants
STEP_DRIFT_THRESHOLD == 10
GAME_UPS == 60
\* playerJoined seeds messageIndex with Number(playerId) * 10000
IndexStride == 10000

NoStep == -1
NaN == -1
UndefinedIdx == -2

\* ------------------------------------------------------------------- bounds
\* largest configured delayInputCount
MaxDelay == 3
\* sendInput calls in one session
MaxInputs == 2
\* sendInput calls made from one client.preStep hook
MaxHookInputs == 2
\* step() calls in one session
MaxTicks == 4
\* world updates pending between two ticks
MaxInbound == 2
\* wall-clock milliseconds the game loop is followed for
MaxClockMs == 66
\* sendInput calls of the busier of two clients
MaxBurst == 10001
MaxRenders == 2

\* inputs a user can issue
Inputs == {"up"}
\* player identifiers the server hands out
PlayerIds == {1, 2}
\* authoritative step values written to gameEngine.serverStep
ServerSteps == {5, 25}
\* deserialized payloads: the stepCount (or NoStep) of each event
Payloads == {<< >>, <<NoStep, NoStep>>, <<0>>, <<5>>, <<7, NoStep, 4>>, <<25>>}
\* two client engines connected to one server
Clients == {"a", "b"}
\* milliseconds that pass between two reads of the clock
ClockAdvances == {1, 16, 17, 50}
LifeClockAdvances == {17, 50}

VARIABLES
    delayInputCount,   \* inputOptions.delayInputCount (0: unset)
    passive,           \* gameEngine.passive
    stepCount,         \* gameEngine.world.stepCount
    serverStep,        \* gameEngine.serverStep
    skipOneStep,       \* this.skipOneStep === true
    doubleStep,        \* this.doubleStep === true
    inboundMessages,   \* this.inboundMessages
    outboundMessages,  \* this.outboundMessages
    delayedInputs,     \* this.delayedInputs: [defined, batches]
    messageIndex,      \* this.messageIndex
    playerId,          \* this.playerId
    emitted,           \* messages passed to socket.emit, in order
    processed,         \* calls of gameEngine.processInput, in order
    issued,            \* sendInput calls, in order: [tick, hook]
    syncLog,           \* client.syncReceived notifications of the last step()
    stepLog,           \* one entry per step() call
    lastCheck,         \* the most recent drift check
    now,               \* (new Date()).getTime(), in clock units since start()
    nextGameTick,      \* nextGameTick of start(), in clock units
    loopPc,            \* "waiting" for an animation frame, or "running" gameLoop
    lastRead,          \* the clock value the loop condition last read
    ranInCallback,     \* step() calls made by the current gameLoop callback
    peers,             \* playerId and messageIndex of each of two clients
    phases,            \* the phases the last step() call went through, in order
    reentered,         \* ids of the messages issued during an outbound drain
    lifecycle,         \* "new", "constructed", "constructorThrew", "started", "startThrew"
    requestedSync,     \* options.syncOptions.sync as the host passed it
    syncOptions,       \* options.syncOptions: [present, sync, reflect]
    selectors,         \* the object selectors set on the synchronizer
    renderer,          \* whether the host has set this.renderer
    alerted,           \* whether alert() was called
    renderPc,          \* "idle", "waiting" for a frame, or "stopped" by an exception
    renderCalls        \* calls of renderLoop

loopVars == <<now, nextGameTick, loopPc, lastRead, ranInCallback>>

lifeVars == <<lifecycle, requestedSync, syncOptions, selectors, renderer, alerted,
              renderPc, renderCalls>>

vars == <<delayInputCount, passive, stepCount, serverStep, skipOneStep,
          doubleStep, inboundMessages, outboundMessages, delayedInputs,
          messageIndex, playerId, emitted, processed, issued, syncLog,
          stepLog, lastCheck, now, nextGameTick, loopPc, lastRead,
          ranInCallback, peers, phases, reentered, lifecycle, requestedSync,
          syncOptions, selectors, renderer, alerted, renderPc, renderCalls>>

\* ------------------------------------------------------------------ helpers
Max(a, b) == IF a > b THEN a ELSE b

\* all sequences over S of length at most n
RECURSIVE SeqsUpTo(_, _)
SeqsUpTo(S, n) ==
    IF n = 0 THEN {<< >>}
    ELSE LET shorter == SeqsUpTo(S, n - 1)
         IN  shorter \cup {Append(s, x) : s \in {t \in shorter : Len(t) = n - 1}, x \in S}

\* the engine's fields as one record, so that the steps of a handler compose
Self ==
    [passive |-> passive, stepCount |-> stepCount, serverStep |-> serverStep,
     skipOneStep |-> skipOneStep, doubleStep |-> doubleStep,
     inboundMessages |-> inboundMessages, outboundMessages |-> outboundMessages,
     delayedInputs |-> delayedInputs, messageIndex |-> messageIndex,
     playerId |-> playerId, emitted |-> emitted, processed |-> processed,
     issued |-> issued, syncLog |-> syncLog, stepLog |-> stepLog,
     lastCheck |-> lastCheck, phases |-> phases, reentered |-> reentered]

Commit(c) ==
    /\ stepCount' = c.stepCount
    /\ serverStep' = c.serverStep
    /\ skipOneStep' = c.skipOneStep
    /\ doubleStep' = c.doubleStep
    /\ inboundMessages' = c.inboundMessages
    /\ outboundMessages' = c.outboundMessages
    /\ delayedInputs' = c.delayedInputs
    /\ messageIndex' = c.messageIndex
    /\ playerId' = c.playerId
    /\ emitted' = c.emitted
    /\ processed' = c.processed
    /\ issued' = c.issued
    /\ syncLog' = c.syncLog
    /\ stepLog' = c.stepLog
    /\ lastCheck' = c.lastCheck
    /\ phases' = c.phases
    /\ reentered' = c.reentered
    /\ UNCHANGED <<delayInputCount, passive>>

\* number of step() calls completed so far: the index of the call in progress
CurrentTick(c) == Len(c.stepLog)

\* ---------------------------------------------------------- constructor
\* the values of syncOptions.sync the selector chain knows, and 'reflect'
SyncModes == {"extrapolate", "interpolate", "frameSync", "reflect"}

\* what the host may pass as syncOptions.sync; "undefined" is a missing key
RequestedSyncs == SyncModes \cup {"bogus", "undefined"}

\* lines 95-100: the if / else-if chain setting a selector on the synchronizer
SelectorOf(sync) ==
    IF sync = "extrapolate" THEN {"extrapolateObjectSelector"}
    ELSE IF sync = "interpolate" THEN {"interpolateObjectSelector"}
    ELSE IF sync = "frameSync" THEN {"frameSyncSelector"}
    ELSE {}

\* configureSynchronization without the rewriting of 'reflect'
configureSynchronization_NoReflect(opts) ==
    IF ~opts.present
    THEN [threw |-> TRUE, syncOptions |-> opts, selectors |-> {}]
    ELSE [threw |-> FALSE, syncOptions |-> opts, selectors |-> SelectorOf(opts.sync)]

\* lines 81-101: configureSynchronization; reading .sync of a missing
\* syncOptions throws a TypeError, new Synchronizer() does not throw
configureSynchronization(opts) ==
    IF ~opts.present
    THEN [threw |-> TRUE, syncOptions |-> opts, selectors |-> {}]
    ELSE LET o == IF opts.sync = "reflect"
                  THEN [opts EXCEPT !.sync = "interpolate", !.reflect = TRUE]
                  ELSE opts
         IN  [threw |-> FALSE, syncOptions |-> o, selectors |-> SelectorOf(o.sync)]

\* lines 63-68: a buffer of delayInputCount empty batches, when configured
NewDelayedInputs(d) ==
    IF d # 0
    THEN [defined |-> TRUE, batches |-> [i \in 1..d |-> << >>]]
    ELSE [defined |-> FALSE, batches |-> << >>]

\* lines 70-73: the playerJoined handler
OnPlayerJoined(c, id) ==
    [c EXCEPT !.playerId = id, !.messageIndex = id * IndexStride]

\* ------------------------------------------------------------- local input
\* lines 179-187: doInputLocal
doInputLocal(c, message, inSend) ==
    IF c.passive THEN c
    ELSE [c EXCEPT !.processed =
              Append(@, [id |-> message.id, tick |-> CurrentTick(c), inSend |-> inSend])]

RECURSIVE ApplyBatch(_, _)
ApplyBatch(c, batch) ==
    IF batch = << >> THEN c
    ELSE ApplyBatch(doInputLocal(c, Head(batch), FALSE), Tail(batch))

\* applyDelayedInputs without the push of a fresh batch
applyDelayedInputs_NoPush(c) ==
    IF ~c.delayedInputs.defined THEN c
    ELSE LET q == c.delayedInputs.batches
             applied == IF q = << >> THEN c ELSE ApplyBatch(c, Head(q))
             rest == IF q = << >> THEN << >> ELSE Tail(q)
         IN  [applied EXCEPT !.delayedInputs.batches = rest]

\* lines 189-199: applyDelayedInputs
applyDelayedInputs(c) ==
    IF ~c.delayedInputs.defined THEN c
    ELSE LET q == c.delayedInputs.batches
             applied == IF q = << >> THEN c ELSE ApplyBatch(c, Head(q))
             rest == IF q = << >> THEN << >> ELSE Tail(q)
         IN  [applied EXCEPT !.delayedInputs.batches = Append(rest, << >>)]

\* messageIndex++ (undefined and NaN both give NaN)
IncIndex(i) == IF i < 0 THEN NaN ELSE i + 1

\* sendInput with the message put at the front of the newest batch (unshift)
sendInput_Unshift(c, input, hook) ==
    LET message == [messageIndex |-> c.messageIndex, step |-> c.stepCount,
                    input |-> input, id |-> Len(c.issued) + 1]
        n == Len(c.delayedInputs.batches)
        local == IF c.delayedInputs.defined
                 THEN [c EXCEPT !.delayedInputs.batches[n] = <<message>> \o @]
                 ELSE doInputLocal(c, message, TRUE)
    IN  [local EXCEPT !.outboundMessages = Append(@, message),
                      !.messageIndex = IncIndex(@),
                      !.issued = Append(@, [tick |-> CurrentTick(c), hook |-> hook])]

\* lines 213-236: sendInput; hook tells whether the call comes from the
\* client.preStep hook of the step() call in progress
sendInput(c, input, hook) ==
    LET message == [messageIndex |-> c.messageIndex, step |-> c.stepCount,
                    input |-> input, id |-> Len(c.issued) + 1]
        n == Len(c.delayedInputs.batches)
        local == IF c.delayedInputs.defined
                 THEN [c EXCEPT !.delayedInputs.batches[n] = Append(@, message)]
                 ELSE doInputLocal(c, message, TRUE)
    IN  [local EXCEPT !.outboundMessages = Append(@, message),
                      !.messageIndex = IncIndex(@),
                      !.issued = Append(@, [tick |-> CurrentTick(c), hook |-> hook])]

RECURSIVE SendAll(_, _, _)
SendAll(c, inputs, hook) ==
    IF inputs = << >> THEN c
    ELSE SendAll(sendInput(c, Head(inputs), hook), Tail(inputs), hook)

\* ------------------------------------------------------------ inbound sync
\* el.stepCount ? ... : a missing, zero or NaN stepCount is falsy
Truthy(n) == n # NoStep /\ n # 0

\* the reduce keeping the last stepCount seen instead of the largest
RECURSIVE MaxStepCount_Last(_, _)
MaxStepCount_Last(events, max) ==
    IF events = << >> THEN max
    ELSE MaxStepCount_Last(Tail(events),
                           IF Truthy(Head(events)) THEN Head(events) ELSE max)

\* lines 244-246: syncEvents.reduce(..., 0)
RECURSIVE MaxStepCount(_, _)
MaxStepCount(events, max) ==
    IF events = << >> THEN max
    ELSE MaxStepCount(Tail(events),
                      IF Truthy(Head(events)) THEN Max(max, Head(events)) ELSE max)

\* handleInboundMessage overwriting the local step without the comparison
handleInboundMessage_Overwrite(c, syncData) ==
    LET maxStepCount == MaxStepCount(syncData, 0)
        updated == [c EXCEPT !.stepCount = maxStepCount]
    IN  [updated EXCEPT !.syncLog = Append(@, [syncEvents |-> syncData,
                                               stepCount |-> maxStepCount,
                                               before |-> c.stepCount,
                                               after |-> updated.stepCount])]

\* lines 238-261: handleInboundMessage
handleInboundMessage(c, syncData) ==
    LET maxStepCount == MaxStepCount(syncData, 0)
        updated == IF maxStepCount > c.stepCount
                   THEN [c EXCEPT !.stepCount = maxStepCount]
                   ELSE c
    IN  [updated EXCEPT !.syncLog = Append(@, [syncEvents |-> syncData,
                                               stepCount |-> maxStepCount,
                                               before |-> c.stepCount,
                                               after |-> updated.stepCount])]

\* the drain that handles the most recent payload and drops the others
DrainInbound_Newest(c) ==
    IF c.inboundMessages = << >> THEN c
    ELSE handleInboundMessage([c EXCEPT !.inboundMessages = << >>],
                              c.inboundMessages[Len(c.inboundMessages)])

\* lines 153-155: while (inboundMessages.length > 0) handle(inboundMessages.pop())
RECURSIVE DrainInbound(_)
DrainInbound(c) ==
    IF c.inboundMessages = << >> THEN c
    ELSE LET n == Len(c.inboundMessages)
             popped == [c EXCEPT !.inboundMessages = SubSeq(@, 1, n - 1)]
         IN  DrainInbound(handleInboundMessage(popped, c.inboundMessages[n]))

\* ------------------------------------------------------------------- drift
\* the drift check without the test that a server step was received
DriftCheck_Unguarded(c) ==
    IF c.stepCount > c.serverStep + STEP_DRIFT_THRESHOLD
    THEN [c EXCEPT !.skipOneStep = TRUE]
    ELSE IF c.serverStep > c.stepCount + STEP_DRIFT_THRESHOLD
         THEN [c EXCEPT !.doubleStep = TRUE]
         ELSE c

\* lines 157-166: the drift check of step()
DriftCheck(c) ==
    IF c.serverStep # 0
    THEN IF c.stepCount > c.serverStep + STEP_DRIFT_THRESHOLD
         THEN [c EXCEPT !.skipOneStep = TRUE]
         ELSE IF c.serverStep > c.stepCount + STEP_DRIFT_THRESHOLD
              THEN [c EXCEPT !.doubleStep = TRUE]
              ELSE c
    ELSE c

\* ---------------------------------------------------------------- outbound
\* handleOutboundInput that leaves the queue as it is after sending
handleOutboundInput_NoClear(c) ==
    [c EXCEPT !.emitted = @ \o c.outboundMessages]

\* lines 263-268: handleOutboundInput
handleOutboundInput(c) ==
    [c EXCEPT !.emitted = @ \o c.outboundMessages, !.outboundMessages = << >>]

\* the input a socket.emit call issues when it calls back into sendInput
Reenter(c) ==
    LET sent == sendInput(c, "up", FALSE)
    IN  [sent EXCEPT !.reentered = Append(@, Len(sent.issued))]

\* the loop bounded by the queue length read once, before the first emit
RECURSIVE DrainFixed(_, _, _, _)
DrainFixed(c, x, n, during) ==
    IF x > n THEN [c EXCEPT !.outboundMessages = << >>]
    ELSE LET sent == [c EXCEPT !.emitted = Append(@, c.outboundMessages[x])]
         IN  DrainFixed(IF x \in during THEN Reenter(sent) ELSE sent, x + 1, n, during)

DrainOutbound_Snapshot(c, x, during) == DrainFixed(c, x, Len(c.outboundMessages), during)

\* lines 264-267: the for loop, which reads outboundMessages.length at every
\* iteration; x is the (1-based) loop index and during the positions whose
\* socket.emit calls back into sendInput
RECURSIVE DrainOutbound(_, _, _)
DrainOutbound(c, x, during) ==
    IF x > Len(c.outboundMessages) THEN [c EXCEPT !.outboundMessages = << >>]
    ELSE LET sent == [c EXCEPT !.emitted = Append(@, c.outboundMessages[x])]
         IN  DrainOutbound(IF x \in during THEN Reenter(sent) ELSE sent, x + 1, during)

\* lines 263-268: handleOutboundInput with re-entrant issuance
handleOutboundInputReentrant(c, during) == DrainOutbound(c, 1, during)

\* ------------------------------------------------------------- game engine
\* gameEngine.step(): the simulation advances by one step
GameEngineStep(c) == [c EXCEPT !.stepCount = @ + 1]

\* a skipped tick that still sends the outbound queue
SkippedStep_Flush(c) ==
    handleOutboundInput(
        [c EXCEPT !.skipOneStep = FALSE,
                  !.phases = << >>,
                  !.stepLog = Append(@, [skipped |-> TRUE, ahead |-> FALSE,
                                         advanced |-> FALSE])])

\* -------------------------------------------------------------------- step
\* the skipped tick that leaves skipOneStep set
SkippedStep_NoReset(c) ==
    [c EXCEPT !.phases = << >>,
              !.stepLog = Append(@, [skipped |-> TRUE, ahead |-> FALSE, advanced |-> FALSE])]

\* lines 146-150: the skipped tick
SkippedStep(c) ==
    [c EXCEPT !.skipOneStep = FALSE,
              !.phases = << >>,
              !.stepLog = Append(@, [skipped |-> TRUE, ahead |-> FALSE, advanced |-> FALSE])]

\* a phase of step() begins
Phase(c, name) == [c EXCEPT !.phases = Append(@, name)]

\* the tick with the delayed inputs applied before the outbound flush
FullStep_ApplyFirst(c, hook) ==
    LET begun == Phase([c EXCEPT !.syncLog = << >>, !.phases = << >>], "client.preStep")
        pre == SendAll(begun, hook, TRUE)
        drained == DrainInbound(Phase(pre, "inbound"))
        checked == DriftCheck(Phase(drained, "drift"))
        applied == applyDelayedInputs(Phase(checked, "delayedApply"))
        flushed == handleOutboundInput(Phase(applied, "outbound"))
        stepped == GameEngineStep(Phase(flushed, "gameEngine.step"))
        ended == Phase(stepped, "client.postStep")
    IN  [ended EXCEPT
            !.lastCheck = [local |-> drained.stepCount, server |-> drained.serverStep,
                           skipOneStep |-> checked.skipOneStep,
                           doubleStep |-> checked.doubleStep],
            !.stepLog = Append(@, [skipped |-> FALSE,
                                   ahead |-> drained.serverStep # 0
                                             /\ drained.stepCount >
                                                drained.serverStep + STEP_DRIFT_THRESHOLD,
                                   advanced |-> stepped.stepCount = flushed.stepCount + 1])]

\* lines 152-172: the tick proper; hook is what the client.preStep listener issues
FullStep(c, hook) ==
    LET begun == Phase([c EXCEPT !.syncLog = << >>, !.phases = << >>], "client.preStep")
        pre == SendAll(begun, hook, TRUE)
        drained == DrainInbound(Phase(pre, "inbound"))
        checked == DriftCheck(Phase(drained, "drift"))
        flushed == handleOutboundInput(Phase(checked, "outbound"))
        applied == applyDelayedInputs(Phase(flushed, "delayedApply"))
        stepped == GameEngineStep(Phase(applied, "gameEngine.step"))
        ended == Phase(stepped, "client.postStep")
    IN  [ended EXCEPT
            !.lastCheck = [local |-> drained.stepCount, server |-> drained.serverStep,
                           skipOneStep |-> checked.skipOneStep,
                           doubleStep |-> checked.doubleStep],
            !.stepLog = Append(@, [skipped |-> FALSE,
                                   ahead |-> drained.serverStep # 0
                                             /\ drained.stepCount >
                                                drained.serverStep + STEP_DRIFT_THRESHOLD,
                                   advanced |-> stepped.stepCount = applied.stepCount + 1])]

\* lines 152-172: the tick proper, with a socket.emit that calls back into
\* sendInput at the loop positions of during
FullStepReentrant(c, hook, during) ==
    LET begun == Phase([c EXCEPT !.syncLog = << >>, !.phases = << >>], "client.preStep")
        pre == SendAll(begun, hook, TRUE)
        drained == DrainInbound(Phase(pre, "inbound"))
        checked == DriftCheck(Phase(drained, "drift"))
        flushed == handleOutboundInputReentrant(Phase(checked, "outbound"), during)
        applied == applyDelayedInputs(Phase(flushed, "delayedApply"))
        stepped == GameEngineStep(Phase(applied, "gameEngine.step"))
        ended == Phase(stepped, "client.postStep")
    IN  [ended EXCEPT
            !.lastCheck = [local |-> drained.stepCount, server |-> drained.serverStep,
                           skipOneStep |-> checked.skipOneStep,
                           doubleStep |-> checked.doubleStep],
            !.stepLog = Append(@, [skipped |-> FALSE,
                                   ahead |-> drained.serverStep # 0
                                             /\ drained.stepCount >
                                                drained.serverStep + STEP_DRIFT_THRESHOLD,
                                   advanced |-> stepped.stepCount = applied.stepCount + 1])]

\* lines 141-177: step()
step(c, hook) == IF c.skipOneStep THEN SkippedStep(c) ELSE FullStep(c, hook)

\* ----------------------------------------------------------------- actions
\* lines 52-68: the fields the constructor sets, and the observation variables
InitFields ==
    /\ delayInputCount \in 0..MaxDelay
    /\ passive \in BOOLEAN
    /\ stepCount = 0
    /\ serverStep = 0
    /\ skipOneStep = FALSE
    /\ doubleStep = FALSE
    /\ inboundMessages = << >>
    /\ outboundMessages = << >>
    /\ delayedInputs = NewDelayedInputs(delayInputCount)
    /\ messageIndex = UndefinedIdx
    /\ playerId = NaN
    /\ emitted = << >>
    /\ processed = << >>
    /\ issued = << >>
    /\ syncLog = << >>
    /\ stepLog = << >>
    /\ lastCheck = [local |-> 0, server |-> 0, skipOneStep |-> FALSE, doubleStep |-> FALSE]
    /\ now = 0
    /\ nextGameTick = 0
    /\ lastRead = 0
    /\ ranInCallback = 0
    /\ peers = [p \in Clients |-> [playerId |-> NaN, messageIndex |-> UndefinedIdx,
                                    first |-> UndefinedIdx]]
    /\ phases = << >>
    /\ reentered = << >>

\* a client constructed with syncOptions.sync = 'interpolate' and a renderer,
\* after start()
Init ==
    /\ InitFields
    /\ loopPc = "waiting"
    /\ lifecycle = "started"
    /\ requestedSync = "interpolate"
    /\ syncOptions = [present |-> TRUE, sync |-> "interpolate", reflect |-> FALSE]
    /\ selectors = {"interpolateObjectSelector"}
    /\ renderer = TRUE
    /\ alerted = FALSE
    /\ renderPc = "waiting"
    /\ renderCalls = 0

\* the game loop calls step(); the preStep listener issues the inputs of hook
Step(hook) ==
    /\ Len(stepLog) < MaxTicks
    /\ Len(issued) + Len(hook) <= MaxInputs
    /\ skipOneStep => hook = << >>
    /\ Commit(step(Self, hook))
    /\ UNCHANGED <<loopVars, peers, lifeVars>>

\* a tick proper in which socket.emit calls back into sendInput
StepReentrant(hook, during) ==
    /\ Len(stepLog) < MaxTicks
    /\ ~skipOneStep
    /\ during # {}
    /\ \A x \in during : x <= Len(outboundMessages) + Len(hook) + Cardinality(during) - 1
    /\ Len(issued) + Len(hook) + Cardinality(during) <= MaxInputs
    /\ Commit(FullStepReentrant(Self, hook, during))
    /\ UNCHANGED <<loopVars, peers, lifeVars>>

\* the host calls sendInput between two ticks
SendInput(input) ==
    /\ Len(issued) < MaxInputs
    /\ Commit(sendInput(Self, input, FALSE))
    /\ UNCHANGED <<loopVars, peers, lifeVars>>

\* lines 105-107: the worldUpdate socket handler
WorldUpdate(worldData) ==
    /\ Len(inboundMessages) < MaxInbound
    /\ Commit([Self EXCEPT !.inboundMessages = Append(@, worldData)])
    /\ UNCHANGED <<loopVars, peers, lifeVars>>

\* lines 70-73: the playerJoined socket handler
PlayerJoined(id) ==
    /\ Commit(OnPlayerJoined(Self, id))
    /\ UNCHANGED <<loopVars, peers, lifeVars>>

\* the synchronizer records the server's step in gameEngine.serverStep
SetServerStep(s) ==
    /\ serverStep # s
    /\ Commit([Self EXCEPT !.serverStep = s])
    /\ UNCHANGED <<loopVars, peers, lifeVars>>

\* --------------------------------------------------------------- game loop
\* Time is counted in thirds of a millisecond, so that skipTicks = 1000 / GAME_UPS
\* is a whole number of units; getTime() returns whole milliseconds. The
\* arithmetic is exact (no floating-point rounding of nextGameTick).
UnitsPerMs == 3

\* line 111: let skipTicks = 1000 / GAME_UPS
skipTicks == (1000 * UnitsPerMs) \div GAME_UPS

\* the loop condition with >= in place of >
TickDue_OrEqual(clock, next) == clock >= next

\* line 116: (new Date()).getTime() > nextGameTick
TickDue(clock, next) == clock > next

\* wall-clock time passes, also while gameLoop is running
ClockAdvance(ms) ==
    /\ now + ms * UnitsPerMs <= MaxClockMs * UnitsPerMs
    /\ now' = now + ms * UnitsPerMs
    /\ UNCHANGED <<delayInputCount, passive, stepCount, serverStep, skipOneStep,
                   doubleStep, inboundMessages, outboundMessages, delayedInputs,
                   messageIndex, playerId, emitted, processed, issued, syncLog,
                   stepLog, lastCheck, nextGameTick, loopPc, lastRead,
                   ranInCallback, peers, phases, reentered, lifeVars>>

\* lines 120, 131: the animation frame requested by start() or by gameLoop fires
AnimationFrame ==
    /\ loopPc = "waiting"
    /\ loopPc' = "running"
    /\ ranInCallback' = 0
    /\ UNCHANGED <<delayInputCount, passive, stepCount, serverStep, skipOneStep,
                   doubleStep, inboundMessages, outboundMessages, delayedInputs,
                   messageIndex, playerId, emitted, processed, issued, syncLog,
                   stepLog, lastCheck, now, nextGameTick, lastRead, peers,
                   phases, reentered, lifeVars>>

\* lines 116-119: one iteration of the while loop of gameLoop
GameLoopTick ==
    /\ loopPc = "running"
    /\ TickDue(now, nextGameTick)
    /\ Len(stepLog) < MaxTicks
    /\ Commit(step(Self, << >>))
    /\ nextGameTick' = nextGameTick + skipTicks
    /\ lastRead' = now
    /\ ranInCallback' = ranInCallback + 1
    /\ UNCHANGED <<now, loopPc, peers, lifeVars>>

\* lines 116, 120: the loop condition fails and gameLoop asks for the next frame
GameLoopYield ==
    /\ loopPc = "running"
    /\ ~TickDue(now, nextGameTick)
    /\ loopPc' = "waiting"
    /\ lastRead' = now
    /\ UNCHANGED <<delayInputCount, passive, stepCount, serverStep, skipOneStep,
                   doubleStep, inboundMessages, outboundMessages, delayedInputs,
                   messageIndex, playerId, emitted, processed, issued, syncLog,
                   stepLog, lastCheck, now, nextGameTick, ranInCallback, peers,
                   phases, reentered, lifeVars>>

\* the variables of the engine proper and their observation variables
engineVars ==
    <<delayInputCount, passive, stepCount, serverStep, skipOneStep, doubleStep,
      inboundMessages, outboundMessages, delayedInputs, messageIndex, playerId,
      emitted, processed, issued, syncLog, stepLog, lastCheck, peers, phases,
      reentered>>

\* lines 26-79: new ClientEngine(gameEngine, options); line 61 calls
\* configureSynchronization, and an exception there leaves the constructor
Construct ==
    /\ lifecycle = "new"
    /\ LET configured == configureSynchronization(syncOptions)
       IN  /\ syncOptions' = configured.syncOptions
           /\ selectors' = configured.selectors
           /\ lifecycle' = IF configured.threw THEN "constructorThrew" ELSE "constructed"
    /\ UNCHANGED <<engineVars, loopVars, requestedSync, renderer, alerted, renderPc,
                   renderCalls>>

\* lines 103-139: start(); both loops are handed to requestAnimationFrame
\* (lines 131-132) before the renderer is looked at (lines 135-138), and
\* this.renderer.init() throws a TypeError when there is no renderer
Start ==
    /\ lifecycle = "constructed"
    /\ nextGameTick' = now
    /\ loopPc' = "waiting"
    /\ renderPc' = "waiting"
    /\ alerted' = ~renderer
    /\ lifecycle' = IF renderer THEN "started" ELSE "startThrew"
    /\ UNCHANGED <<engineVars, now, lastRead, ranInCallback, requestedSync,
                   syncOptions, selectors, renderer, renderCalls>>

\* lines 124-127: renderLoop; this.renderer.draw() throws when there is no
\* renderer, and the next frame is then not requested
RenderFrame ==
    /\ renderPc = "waiting"
    /\ renderCalls < MaxRenders
    /\ renderCalls' = renderCalls + 1
    /\ renderPc' = IF renderer THEN "waiting" ELSE "stopped"
    /\ UNCHANGED <<engineVars, loopVars, lifecycle, requestedSync, syncOptions,
                   selectors, renderer, alerted>>

NextLoop ==
    \/ \E ms \in ClockAdvances : ClockAdvance(ms)
    \/ AnimationFrame
    \/ GameLoopTick
    \/ GameLoopYield

\* -------------------------------------------------------------- two clients
\* Each client is followed through the two fields the playerJoined handler and
\* sendInput write, playerId and messageIndex; first is the seed the handler gave.
\* The message indexes a client has issued since it joined
IssuedIndexes(p) ==
    IF peers[p].first < 0 THEN {} ELSE peers[p].first..(peers[p].messageIndex - 1)

\* lines 70-73: the server tells client p its player identifier, one per client
PeerJoined(p, id) ==
    /\ peers[p].playerId = NaN
    /\ \A q \in Clients : peers[q].playerId # id
    /\ LET joined == OnPlayerJoined(peers[p], id)
       IN  peers' = [peers EXCEPT ![p] = [joined EXCEPT !.first = joined.messageIndex]]
    /\ UNCHANGED <<delayInputCount, passive, stepCount, serverStep, skipOneStep,
                   doubleStep, inboundMessages, outboundMessages, delayedInputs,
                   messageIndex, playerId, emitted, processed, issued, syncLog,
                   stepLog, lastCheck, loopVars, phases, reentered, lifeVars>>

\* lines 217, 235: client p issues an input after it has joined
PeerSendInput(p) ==
    /\ peers[p].playerId # NaN
    /\ peers[p].messageIndex - peers[p].first <
          (IF p = "a" THEN MaxBurst ELSE MaxInputs)
    /\ peers' = [peers EXCEPT ![p].messageIndex = IncIndex(@)]
    /\ UNCHANGED <<delayInputCount, passive, stepCount, serverStep, skipOneStep,
                   doubleStep, inboundMessages, outboundMessages, delayedInputs,
                   messageIndex, playerId, emitted, processed, issued, syncLog,
                   stepLog, lastCheck, loopVars, phases, reentered, lifeVars>>

NextPeers ==
    \/ \E p \in Clients, id \in PlayerIds : PeerJoined(p, id)
    \/ \E p \in Clients : PeerSendInput(p)

\* the input pipeline: issuance, delay buffer and outbound flush, with the
\* world update and the server step that make the client skip a tick
Next ==
    \/ \E hook \in SeqsUpTo(Inputs, MaxHookInputs) : Step(hook)
    \/ \E input \in Inputs : SendInput(input)
    \/ \E worldData \in {<<25>>} : WorldUpdate(worldData)
    \/ \E s \in {5} : SetServerStep(s)

Spec == Init /\ [][Next]_vars

\* a client that issues no input
InitQuiet ==
    /\ Init
    /\ delayInputCount = 0
    /\ passive = FALSE

\* the inbound handler: ticks and world updates of every shape
NextSync ==
    \/ Step(<< >>)
    \/ \E worldData \in Payloads : WorldUpdate(worldData)

SpecSync == InitQuiet /\ [][NextSync]_vars

\* the inbound drain: ticks and world updates carrying different steps
DrainPayloads == {<<5>>, <<7, NoStep, 4>>, <<25>>}

NextDrain ==
    \/ Step(<< >>)
    \/ \E worldData \in DrainPayloads : WorldUpdate(worldData)

SpecDrain == InitQuiet /\ [][NextDrain]_vars

\* step drift: ticks, server steps, and world updates that move the local step
NextDrift ==
    \/ Step(<< >>)
    \/ \E worldData \in {<<5>>, <<25>>} : WorldUpdate(worldData)
    \/ \E s \in ServerSteps : SetServerStep(s)

SpecDrift == InitQuiet /\ [][NextDrift]_vars

\* the game loop of start() driving step()
SpecLoop == InitQuiet /\ [][NextLoop]_vars

\* two clients joining and issuing inputs
SpecPeers == InitQuiet /\ [][NextPeers]_vars

\* one client receiving playerJoined messages while it issues inputs and ticks
NextJoin ==
    \/ \E id \in PlayerIds : PlayerJoined(id)
    \/ \E input \in Inputs : SendInput(input)
    \/ \E hook \in SeqsUpTo(Inputs, MaxHookInputs) : Step(hook)

SpecJoin == InitQuiet /\ [][NextJoin]_vars

\* a client about to be constructed, with the options and the renderer the
\* host gives it
InitLife ==
    /\ InitFields
    /\ delayInputCount = 0
    /\ passive = FALSE
    /\ loopPc = "idle"
    /\ lifecycle = "new"
    /\ requestedSync \in RequestedSyncs
    /\ syncOptions \in {[present |-> b, sync |-> requestedSync, reflect |-> FALSE] :
                          b \in BOOLEAN}
    /\ selectors = {}
    /\ renderer \in BOOLEAN
    /\ alerted = FALSE
    /\ renderPc = "idle"
    /\ renderCalls = 0

\* construction, start() and the two loops it starts
NextLife ==
    \/ Construct
    \/ Start
    \/ RenderFrame
    \/ \E ms \in LifeClockAdvances : ClockAdvance(ms)
    \/ AnimationFrame
    \/ GameLoopTick
    \/ GameLoopYield

SpecLife == InitLife /\ [][NextLife]_vars

\* a socket whose emit calls back into sendInput during the outbound drain
NextReentrant ==
    \/ \E hook \in SeqsUpTo(Inputs, MaxHookInputs), during \in SUBSET (1..MaxInputs) :
          StepReentrant(hook, during)
    \/ \E hook \in SeqsUpTo(Inputs, MaxHookInputs) : Step(hook)
    \/ \E input \in Inputs : SendInput(input)

SpecReentrant == Init /\ [][NextReentrant]_vars

\* ------------------------------------------------------------------ claims
Ids(messages) == [i \in DOMAIN messages |-> messages[i].id]

\* the largest element of a set of step counts, 0 for the empty set
MaxOf(S) == IF S = {} THEN 0 ELSE CHOOSE x \in S : \A y \in S : x >= y

\* the stepCount values carried by the events of a payload
CarriedSteps(events) == {events[i] : i \in DOMAIN events} \ {NoStep}

\* C1: the local step count never decreases, whatever step() calls (skipped
\* or not), sendInput calls and inbound payloads occur.
C1_MonotonicStep == [][stepCount' >= stepCount]_vars

\* a payload with a smaller step than the local one was handled, after an
\* input was issued and a tick was skipped
C1_Witness ==
    /\ \E i \in DOMAIN syncLog : syncLog[i].stepCount < syncLog[i].before
    /\ \E j \in DOMAIN stepLog : stepLog[j].skipped
    /\ issued # << >>

\* C2: with delayInputCount = D > 0 an input issued in the preStep hook of
\* tick T reaches processInput during tick T+D and in no other tick; with D = 0
\* it reaches processInput inside sendInput.
C2_DelayCorrectness ==
    ~passive =>
        /\ \A k \in DOMAIN processed :
              LET e == processed[k]
                  i == issued[e.id]
              IN  i.hook =>
                     IF delayInputCount > 0
                     THEN ~e.inSend /\ e.tick = i.tick + delayInputCount
                     ELSE e.inSend /\ e.tick = i.tick
        /\ \A n \in DOMAIN issued :
              (issued[n].hook /\ Len(stepLog) > issued[n].tick + delayInputCount)
                 => \E k \in DOMAIN processed : processed[k].id = n

\* C3: the socket stream holds every issued message once, in issuance order;
\* what is not yet sent is still queued, and nothing issued before a tick that
\* was not skipped is left unsent.
C3_TransmissionComplete ==
    /\ Ids(emitted) \o Ids(outboundMessages) = [i \in 1..Len(issued) |-> i]
    /\ \A n \in DOMAIN issued :
          (\E j \in (issued[n].tick + 1)..Len(stepLog) : ~stepLog[j].skipped)
             => n <= Len(emitted)

\* two inputs were issued, the first one sent by a tick and the second one
\* still queued behind a skipped tick
C3_Witness ==
    /\ Len(emitted) = 1
    /\ Len(outboundMessages) = 1
    /\ stepLog # << >>
    /\ stepLog[Len(stepLog)].skipped

\* C4: skipOneStep and doubleStep are never both true.
C4_MutuallyExclusive == ~(skipOneStep /\ doubleStep)

\* C5: inputs reach processInput in the order of their sendInput calls, for
\* inputs of one tick and of different ticks, while the simulation is not passive.
C5_ApplicationOrder ==
    ~passive => \A k \in DOMAIN processed : processed[k].id = k

\* two delayed inputs of the same tick have both been applied
C5_Witness ==
    /\ ~passive
    /\ delayInputCount > 1
    /\ Len(processed) = 2
    /\ issued[1].tick = issued[2].tick

\* C6: each handled payload is notified with the maximum stepCount its events
\* carry (0 when none does), and leaves the local step at that maximum when it
\* is greater than the step before, and unchanged otherwise.
C6_InboundStep ==
    \A i \in DOMAIN syncLog :
        LET r == syncLog[i]
            m == MaxOf(CarriedSteps(r.syncEvents))
        IN  /\ r.stepCount = m
            /\ r.after = IF m > r.before THEN m ELSE r.before

\* events [{stepCount:7},{},{stepCount:4}] were handled at local step 5
C6_Witness ==
    \E i \in DOMAIN syncLog :
        /\ syncLog[i].syncEvents = <<7, NoStep, 4>>
        /\ syncLog[i].before = 5
        /\ syncLog[i].stepCount = 7
        /\ syncLog[i].after = 7

C8_BehindServer ==
    /\ lastCheck.server > lastCheck.local + STEP_DRIFT_THRESHOLD
          => lastCheck.doubleStep /\ ~lastCheck.skipOneStep
    /\ serverStep = 0 => ~skipOneStep /\ ~doubleStep

\* threshold 10, local step 5, server step 25
C8_Witness ==
    /\ lastCheck.local = 5
    /\ lastCheck.server = 25
    /\ doubleStep
    /\ ~skipOneStep

\* C9: two clients with different player identifiers never issue the same
\* messageIndex, however many inputs each sends after it joined.
C9_DisjointNamespaces ==
    \A i \in IssuedIndexes("b") : i \notin IssuedIndexes("a")

\* C10: after every gameLoop callback the number of step() calls made since
\* start() does not exceed the elapsed time divided by the tick duration, and
\* no tick that is due has been left out.
C10_NeverFasterThanRealTime ==
    (loopPc = "waiting" /\ lastRead > 0) =>
        /\ Len(stepLog) * skipTicks <= now
        /\ (Len(stepLog) + 1) * skipTicks > lastRead

\* C10 as amended: when gameLoop yields, every tick due at its last clock read
\* has run (none is dropped, also after a stall), the ticks ran one by one in
\* order, and the last one was due before that read: the count is the elapsed
\* time over the tick duration rounded up, less than one tick ahead of real time.
C10_TicksRoundedUp ==
    /\ nextGameTick = Len(stepLog) * skipTicks
    /\ Len(stepLog) > 0 => (Len(stepLog) - 1) * skipTicks < lastRead
    /\ loopPc = "waiting" => Len(stepLog) * skipTicks >= lastRead
    /\ loopPc = "waiting" => (Len(stepLog) - 1) * skipTicks < now

\* a callback after a stall of three tick durations ran the three missed ticks
C10_Witness ==
    /\ loopPc = "waiting"
    /\ ranInCallback = 3
    /\ Len(stepLog) = 4

\* C16: once playerJoined has assigned playerId, no later event changes it or
\* seeds messageIndex again (messageIndex only counts up by one per input).
C16_WriteOnce ==
    [][playerId # NaN =>
          /\ playerId' = playerId
          /\ messageIndex' \in {messageIndex, messageIndex + 1}]_vars

\* C17: with delayInputCount = D > 0 the buffer holds D batches in every state,
\* through sendInput, skipped ticks and ticks proper; without a delay there is
\* no buffer.
C17_FixedDepth ==
    IF delayInputCount > 0
    THEN delayedInputs.defined /\ Len(delayedInputs.batches) = delayInputCount
    ELSE ~delayedInputs.defined

\* a depth-3 buffer after a tick proper, a skipped tick and a queued input
C17_Witness ==
    /\ delayInputCount = 3
    /\ Len(delayedInputs.batches) = 3
    /\ \E j \in DOMAIN stepLog : stepLog[j].skipped
    /\ \E j \in DOMAIN stepLog : ~stepLog[j].skipped
    /\ delayedInputs.batches[3] # << >>

\* the drain in arrival order: the policy the code does not use
RECURSIVE DrainInboundFifo(_)
DrainInboundFifo(c) ==
    IF c.inboundMessages = << >> THEN c
    ELSE DrainInboundFifo(handleInboundMessage([c EXCEPT !.inboundMessages = Tail(@)],
                                               Head(c.inboundMessages)))

Notifications(log) ==
    [i \in DOMAIN log |-> [syncEvents |-> log[i].syncEvents, stepCount |-> log[i].stepCount]]

Reverse(seq) == [i \in DOMAIN seq |-> seq[Len(seq) + 1 - i]]

\* C18: draining the pending payloads newest first (as the code does) or in
\* arrival order empties the queue and leaves the local step at the larger of
\* its value before and the largest stepCount of any pending event; the two
\* orders differ only in the order of the client.syncReceived notifications.
C18_DrainOrderIndependent ==
    LET base == [Self EXCEPT !.syncLog = << >>]
        popped == DrainInbound(base)
        fifo == DrainInboundFifo(base)
        pending == UNION {CarriedSteps(inboundMessages[i]) : i \in DOMAIN inboundMessages}
    IN  /\ popped.inboundMessages = << >>
        /\ fifo.inboundMessages = << >>
        /\ popped.stepCount = Max(stepCount, MaxOf(pending))
        /\ fifo.stepCount = popped.stepCount
        /\ Notifications(popped.syncLog) = Reverse(Notifications(fifo.syncLog))
        /\ Len(popped.syncLog) = Len(inboundMessages)

\* two payloads with different steps are pending, the older one the larger,
\* after a tick has drained two payloads
C18_Witness ==
    /\ inboundMessages = << <<25>>, <<7, NoStep, 4>> >>
    /\ stepCount < 7
    /\ Len(syncLog) = 2

\* C20: a message issued by sendInput is on the socket once the first step()
\* call after its issuance has run if that call is not skipped, and once the
\* second has run in any case; the outbound queue is empty after every tick
\* that is not skipped.
C20_BoundedTransmission ==
    /\ \A n \in DOMAIN issued :
          LET t == issued[n].tick
          IN  /\ (Len(stepLog) >= t + 1 /\ ~stepLog[t + 1].skipped) => n <= Len(emitted)
              /\ Len(stepLog) >= t + 2 => n <= Len(emitted)
    /\ (/\ stepLog # << >>
        /\ ~stepLog[Len(stepLog)].skipped
        /\ \A n \in DOMAIN issued : issued[n].tick < Len(stepLog))
          => outboundMessages = << >>

\* an input issued before a skipped tick went out with the second step() call
C20_Witness ==
    \E n \in DOMAIN issued :
        /\ ~issued[n].hook
        /\ Len(stepLog) = issued[n].tick + 2
        /\ stepLog[issued[n].tick + 1].skipped
        /\ n <= Len(emitted)

\* the phases of a tick proper, in the order of lines 152-172
TickPhases ==
    <<"client.preStep", "inbound", "drift", "outbound", "delayedApply",
      "gameEngine.step", "client.postStep">>

\* C15: a tick that is not skipped goes through the phases client.preStep,
\* inbound drain, drift check, outbound flush, delayed-input apply,
\* gameEngine.step, client.postStep, once each and in this order; a skipped
\* tick goes through none of them. step() is one synchronous call, so the
\* phases of two ticks never interleave.
C15_PhaseOrder ==
    /\ stepLog = << >> => phases = << >>
    /\ stepLog # << >> =>
         IF stepLog[Len(stepLog)].skipped THEN phases = << >>
         ELSE phases = TickPhases

C15_Witness ==
    /\ Len(stepLog) >= 2
    /\ ~stepLog[Len(stepLog)].skipped
    /\ phases = TickPhases
    /\ syncLog # << >>
    /\ emitted # << >>
    /\ processed # << >>

\* C19: a step() call made while skipOneStep is true resets skipOneStep and
\* changes nothing else: step count, inbound queue, outbound queue, delayed
\* batches and doubleStep stay as they were, no hook runs, nothing is sent
\* on the socket and no input is applied.
C19_SkippedFrame ==
    [][(skipOneStep /\ Len(stepLog') = Len(stepLog) + 1) =>
         /\ ~skipOneStep'
         /\ stepLog'[Len(stepLog')].skipped
         /\ phases' = << >>
         /\ UNCHANGED <<stepCount, serverStep, inboundMessages, outboundMessages,
                        delayedInputs, doubleStep, messageIndex, playerId,
                        emitted, processed, issued, syncLog>>]_vars

C19_Witness ==
    /\ stepLog # << >>
    /\ stepLog[Len(stepLog)].skipped
    /\ ~skipOneStep
    /\ outboundMessages # << >>
    /\ inboundMessages # << >>

\* C14: a message issued by a sendInput call made while handleOutboundInput
\* iterates the queue is not sent by that drain: right after the tick that
\* issued it, it is still in the outbound queue.
C14_LandsInNextTick ==
    \A k \in DOMAIN reentered :
        Len(stepLog) = issued[reentered[k]].tick + 1
           => reentered[k] \in {outboundMessages[i].id : i \in DOMAIN outboundMessages}

\* C14, amended: a message issued while handleOutboundInput iterates the
\* queue is sent by the same drain, after every message issued before it; no
\* message is lost or sent twice.
C14_SentInSameDrain ==
    /\ Ids(emitted) \o Ids(outboundMessages) = [i \in 1..Len(issued) |-> i]
    /\ \A k \in DOMAIN reentered :
          /\ reentered[k] <= Len(emitted)
          /\ emitted[reentered[k]].id = reentered[k]
          /\ issued[reentered[k]].tick < Len(stepLog)
          /\ ~stepLog[issued[reentered[k]].tick + 1].skipped

\* an input was issued during a drain that had an earlier message to send
C14_Witness ==
    /\ reentered # << >>
    /\ reentered[1] >= 2
    /\ Len(emitted) >= reentered[1]
    /\ outboundMessages = << >>

\* the constructor returned: configureSynchronization ran to its end
Configured == lifecycle \in {"constructed", "started", "startThrew"}

\* the three selectors of a synchronizer
AllSelectors == {"extrapolateObjectSelector", "interpolateObjectSelector", "frameSyncSelector"}

\* the options as the host passed them, with another sync mode
RequestedWith(sync) == [present |-> TRUE, sync |-> sync, reflect |-> FALSE]

\* C11: configureSynchronization run with sync extrapolate, interpolate,
\* frameSync or reflect sets exactly one of the three selectors, the one of
\* the mode; reflect sets the selector of interpolate, and its result is the
\* result of interpolate with the reflect modifier true instead of unset.
C11_StrategySelection ==
    (Configured /\ requestedSync \in SyncModes) =>
        LET asInterpolate == configureSynchronization(RequestedWith("interpolate"))
        IN  /\ Cardinality(selectors) = 1
            /\ selectors \subseteq AllSelectors
            /\ requestedSync = "extrapolate" => selectors = {"extrapolateObjectSelector"}
            /\ requestedSync = "interpolate" => selectors = {"interpolateObjectSelector"}
            /\ requestedSync = "frameSync" => selectors = {"frameSyncSelector"}
            /\ requestedSync # "reflect" => ~syncOptions.reflect
            /\ requestedSync = "reflect" =>
                  /\ selectors = asInterpolate.selectors
                  /\ ~asInterpolate.syncOptions.reflect
                  /\ syncOptions = [asInterpolate.syncOptions EXCEPT !.reflect = TRUE]

\* a client was constructed with sync = 'reflect'
C11_Witness ==
    /\ lifecycle = "constructed"
    /\ requestedSync = "reflect"
    /\ syncOptions.reflect
    /\ selectors = {"interpolateObjectSelector"}

\* C12: constructing the client with syncOptions.sync missing or not one of
\* interpolate, extrapolate, frameSync, reflect aborts the construction; no
\* constructed client has zero selectors set.
C12_InvalidModeFatal ==
    /\ (~syncOptions.present \/ requestedSync \notin SyncModes) => ~Configured
    /\ Configured => selectors # {}

\* C13: when start() is called without a renderer, the error is reported
\* during start() and neither a step() call nor a render callback is made
\* afterwards.
C13_MissingRendererFatal ==
    /\ (~renderer /\ lifecycle \notin {"new", "constructed", "constructorThrew"}) =>
          (lifecycle = "startThrew" /\ alerted)
    /\ lifecycle = "startThrew" => (stepLog = << >> /\ renderCalls = 0)

====
